---- MODULE Spec2Model ----
(***************************************************************************)
(* Model of scripts/markdown_to_json.py: the markdown profile parser, the  *)
(* per-language dataset updater and the command line driver with its       *)
(* optional manifest update.                                               *)
(*                                                                         *)
(* Text is modelled as a sequence of one-character strings, so that        *)
(* strip(), split(), startswith() and the regular expressions of the       *)
(* parser are computed character by character.                             *)
(***************************************************************************)
EXTENDS Integers, Sequences, FiniteSets, TLC

VARIABLES
    \* ---- command line run (main) ----
    pc,             \* position of main: "update", "summary", "manifest", "done"
    args,           \* parsed command line arguments
    md_dir,         \* markdown directory: file name -> content (only existing files)
    json_files,     \* dataset files: path -> file state
    manifest_file,  \* manifest file state
    results,        \* dict built by update_all_languages: language -> count
    lang_idx,       \* position of the loop over the languages
    calls,          \* one record per update_language call made so far
    total_added,    \* main's total_added
    manifest_log,   \* outcome of the manifest step
    exit_code,      \* value returned by main
    json_before,    \* dataset files as they were when the run started
    manifest_before,\* manifest file as it was when the run started
    \* ---- MarkdownParser.parse_md_file on its own ----
    content,        \* text of the markdown file
    parsed,         \* "todo" or "done"
    movies,         \* list returned by parse_md_file
    warnings,       \* warnings logged by parse_md_file
    \* ---- DataUpdater.get_markdown_file on its own ----
    probe_lang,     \* language asked for
    probe_dir,      \* set of file names existing in the markdown directory
    probe_out       \* "todo", or the outcome of get_markdown_file

vars == <<pc, args, md_dir, json_files, manifest_file, results, lang_idx, calls,
          total_added, manifest_log, exit_code, json_before, manifest_before,
          content, parsed, movies, warnings, probe_lang, probe_dir, probe_out>>

mainVars == <<pc, args, md_dir, json_files, manifest_file, results, lang_idx, calls,
              total_added, manifest_log, exit_code, json_before, manifest_before>>
parseVars == <<content, parsed, movies, warnings>>
probeVars == <<probe_lang, probe_dir, probe_out>>

----------------------------------------------------------------------------
(* Bounds of the model *)

\* lines of a markdown text in the parser specification
MaxLines == 3
\* length of the --languages list
MaxLangs == 2

----------------------------------------------------------------------------
(* Text primitives (Python str methods and the re patterns of the parser) *)

None == "None"

IsSpace(c) == c \in {" ", "\n", "\t", "\r"}
IsDigit(c) == c \in {"0", "1", "2", "3", "4", "5", "6", "7", "8", "9"}

RECURSIVE LStrip(_)
LStrip(s) == IF s # <<>> /\ IsSpace(Head(s)) THEN LStrip(Tail(s)) ELSE s

RECURSIVE RStrip(_)
RStrip(s) ==
    IF s # <<>> /\ IsSpace(s[Len(s)]) THEN RStrip(SubSeq(s, 1, Len(s) - 1)) ELSE s

\* str.strip()
Strip(s) == RStrip(LStrip(s))

\* str.startswith(p)
StartsWith(s, p) == Len(s) >= Len(p) /\ SubSeq(s, 1, Len(p)) = p

\* index of the first "\n" of s at or after i, or Len(s) + 1
RECURSIVE FindNewline(_, _)
FindNewline(s, i) ==
    IF i > Len(s) \/ s[i] = "\n" THEN i ELSE FindNewline(s, i + 1)

\* str.split('\n'): always at least one (possibly empty) line
RECURSIVE SplitLines(_)
SplitLines(s) ==
    LET k == FindNewline(s, 1) IN
    IF k > Len(s) THEN <<s>>
    ELSE <<SubSeq(s, 1, k - 1)>> \o SplitLines(SubSeq(s, k + 1, Len(s)))

\* first index at or after i that does not hold a digit
RECURSIVE SkipDigits(_, _)
SkipDigits(s, i) ==
    IF i <= Len(s) /\ IsDigit(s[i]) THEN SkipDigits(s, i + 1) ELSE i

\* first index at or after i that does not hold whitespace
RECURSIVE SkipSpaces(_, _)
SkipSpaces(s, i) ==
    IF i <= Len(s) /\ IsSpace(s[i]) THEN SkipSpaces(s, i + 1) ELSE i

\* the pattern \n(?=\d+\. ) matches at index i of s
HeaderSplitAt(s, i) ==
    /\ i <= Len(s)
    /\ s[i] = "\n"
    /\ LET j == SkipDigits(s, i + 1) IN
        /\ j > i + 1
        /\ j + 1 <= Len(s)
        /\ s[j] = "."
        /\ s[j + 1] = " "

\* index of the first match of \n(?=\d+\. ) at or after i, or Len(s) + 1
RECURSIVE FindHeaderSplit(_, _)
FindHeaderSplit(s, i) ==
    IF i > Len(s) \/ HeaderSplitAt(s, i) THEN i ELSE FindHeaderSplit(s, i + 1)

\* re.split(r'\n(?=\d+\. )', content)
RECURSIVE ReSplit(_)
ReSplit(s) ==
    LET k == FindHeaderSplit(s, 1) IN
    IF k > Len(s) THEN <<s>>
    ELSE <<SubSeq(s, 1, k - 1)>> \o ReSplit(SubSeq(s, k + 1, Len(s)))

\* re.match(r'\d+\.\s+(.+)', line): [ok |-> matched, group |-> group(1)].
\* \s+ is greedy; when nothing follows the whitespace run it gives back its
\* last character to (.+), which needs a run of at least two characters.
TitleMatch(line) ==
    LET d == SkipDigits(line, 1)
        w == SkipSpaces(line, d + 1)
        noMatch == [ok |-> FALSE, group |-> <<>>]
    IN  IF d = 1 \/ d > Len(line) \/ line[d] # "." THEN noMatch
        ELSE IF w = d + 1 THEN noMatch
        ELSE IF w <= Len(line) THEN [ok |-> TRUE, group |-> SubSeq(line, w, Len(line))]
        ELSE IF w - (d + 1) >= 2 THEN [ok |-> TRUE, group |-> SubSeq(line, w - 1, Len(line))]
        ELSE noMatch

----------------------------------------------------------------------------
(* MarkdownParser.parse_md_file *)

ExpectedClues == 20

\* the loop over lines[1:] collecting the clues
RECURSIVE ExtractClues(_)
ExtractClues(lines) ==
    IF lines = <<>> THEN <<>>
    ELSE LET line == Head(lines) IN
         (IF StartsWith(line, <<"-", " ">>)
            THEN <<Strip(SubSeq(line, 3, Len(line)))>>
            ELSE <<>>) \o ExtractClues(Tail(lines))

\* one iteration of the loop over the sections: the movies it appends and
\* the warnings it logs
ParseSection(section) ==
    LET stripped == Strip(section)
        lines == SplitLines(stripped)
        m == TitleMatch(lines[1])
        clues == ExtractClues(Tail(lines))
        nothing == [movies |-> <<>>, warnings |-> <<>>]
    IN  IF stripped = <<>> THEN nothing
        ELSE IF lines[1] = <<>> THEN nothing
        ELSE IF ~m.ok THEN [movies |-> <<>>, warnings |-> <<"title">>]
        ELSE [movies |-> IF clues # <<>>
                            THEN <<[title |-> Strip(m.group), clues |-> clues]>>
                            ELSE <<>>,
              warnings |-> IF Len(clues) # ExpectedClues THEN <<"clues">> ELSE <<>>]

RECURSIVE ParseSections(_)
ParseSections(sections) ==
    IF sections = <<>> THEN [movies |-> <<>>, warnings |-> <<>>]
    ELSE LET h == ParseSection(Head(sections))
             t == ParseSections(Tail(sections))
         IN  [movies |-> h.movies \o t.movies, warnings |-> h.warnings \o t.warnings]

\* parse_md_file for an existing file with the given text
ParseMdFile(text) == ParseSections(ReSplit(text))

----------------------------------------------------------------------------
(* Markdown texts of the parser specification *)

RECURSIVE JoinLines(_)
JoinLines(ls) ==
    IF ls = <<>> THEN <<>>
    ELSE IF Len(ls) = 1 THEN ls[1]
    ELSE ls[1] \o <<"\n">> \o JoinLines(Tail(ls))

RECURSIVE Repeat(_, _)
Repeat(x, n) == IF n = 0 THEN <<>> ELSE <<x>> \o Repeat(x, n - 1)

LineAlphabet ==
    { <<"1", ".", " ", "A">>,
      <<"2", "2", ".", " ", "B", " ">>,
      <<"-", " ", "x">>,
      <<"-", " ", " ", "y", " ">>,
      <<"-", " ">>,
      <<>>,
      <<"x">>,
      <<" ", "1", ".", " ", "A">>,
      <<"1", ".", "\t", "C">>,
      <<"1", ".", " ", " ">>,
      <<"-", "x">> }

SeqsUpTo(S, n) == UNION { [1..k -> S] : k \in 0..n }

\* a section with exactly n clue lines
SectionWithClues(n) ==
    JoinLines(<<<<"1", ".", " ", "A">>>> \o Repeat(<<"-", " ", "x">>, n))

Contents ==
    { JoinLines(ls) : ls \in SeqsUpTo(LineAlphabet, MaxLines) }
    \cup { SectionWithClues(n) : n \in {ExpectedClues - 1, ExpectedClues, ExpectedClues + 1} }

----------------------------------------------------------------------------
(* Names, paths and the JSON files *)

Movies == <<"M", "o", "v", "i", "e", "s">>
En == <<"e", "n">>
Es == <<"e", "s">>
Md == <<"m", "d">>

\* str.lower(), on the letters the model uses
LowerChar(c) ==
    CASE c = "M" -> "m"
      [] c = "A" -> "a"
      [] c = "B" -> "b"
      [] c = "C" -> "c"
      [] OTHER -> c

Lower(s) == [i \in 1..Len(s) |-> LowerChar(s[i])]

NotFound == "FileNotFoundError"
DecodeError == "JSONDecodeError"
KeyErr == "KeyError"

\* variant: the loops are nested the other way round (all plain names
\* first, then all _md names)
CandidatesExtOuter(category, language) ==
    LET base == Lower(category)
        dotMd == <<".", "m", "d">>
        mdDotMd == <<"_", "m", "d", ".", "m", "d">>
        us == <<"_">> \o language
        dash == <<"-">> \o language
    IN  << base \o dotMd,   base \o us \o dotMd,   base \o dash \o dotMd,
           base \o mdDotMd, base \o us \o mdDotMd, base \o dash \o mdDotMd >>

\* the file names get_markdown_file tries, in the order it tries them
Candidates(category, language) ==
    LET base == Lower(category)
        dotMd == <<".", "m", "d">>
        mdDotMd == <<"_", "m", "d", ".", "m", "d">>
        us == <<"_">> \o language
        dash == <<"-">> \o language
    IN  << base \o dotMd,         base \o mdDotMd,
           base \o us \o dotMd,   base \o us \o mdDotMd,
           base \o dash \o dotMd, base \o dash \o mdDotMd >>

\* the loop of get_markdown_file: returns the first element of cands that
\* exists (is in the set names), raises FileNotFoundError when there is none
RECURSIVE FirstExisting(_, _)
FirstExisting(cands, names) ==
    IF cands = <<>> THEN [raised |-> NotFound]
    ELSE IF Head(cands) \in names THEN [raised |-> None, path |-> Head(cands)]
    ELSE FirstExisting(Tail(cands), names)

\* DataUpdater.get_markdown_file
GetMarkdownFile(names, category, language) ==
    FirstExisting(Candidates(category, language), names)

\* DataUpdater.get_json_file
GetJsonFile(category, language) ==
    <<Lower(category), language, "data-1.json">>

\* A JSON file is absent, holds text that is not JSON, or holds a document.
AbsentFile == [kind |-> "absent"]
MalformedFile == [kind |-> "malformed"]
JsonFile(doc) == [kind |-> "json", data |-> doc]

\* JSONDataManager.load_json
LoadJson(file) ==
    IF file.kind = "absent" THEN [raised |-> NotFound]
    ELSE IF file.kind = "malformed" THEN [raised |-> DecodeError]
    ELSE [raised |-> None, data |-> file.data]

\* JSONDataManager.save_json
SaveJson(files, path, doc) == [files EXCEPT ![path] = JsonFile(doc)]

\* JSONDataManager.validate_json: only a JSONDecodeError is turned into False
ValidateJson(file) ==
    LET r == LoadJson(file) IN
    IF r.raised = DecodeError THEN [raised |-> None, valid |-> FALSE]
    ELSE IF r.raised # None THEN [raised |-> r.raised, valid |-> FALSE]
    ELSE [raised |-> None, valid |-> TRUE]

----------------------------------------------------------------------------
(* Profile generation *)

DigitChars == <<"0", "1", "2", "3", "4", "5", "6", "7", "8", "9">>

\* decimal digits of a natural number
RECURSIVE Digits(_)
Digits(n) ==
    IF n < 10 THEN <<DigitChars[n + 1]>>
    ELSE Digits(n \div 10) \o <<DigitChars[(n % 10) + 1]>>

RECURSIVE ZeroFill(_, _)
ZeroFill(ds, width) == IF Len(ds) >= width THEN ds ELSE ZeroFill(<<"0">> \o ds, width)

\* the format specification :03d (the sign counts in the width)
Format03d(n) ==
    IF n < 0 THEN <<"-">> \o ZeroFill(Digits(-n), 2) ELSE ZeroFill(Digits(n), 3)

ProfileWord == <<"p", "r", "o", "f", "i", "l", "e">>

\* f"profile-{self.id_prefix}-{n:03d}"
ProfileId(id_prefix, n) == ProfileWord \o <<"-">> \o id_prefix \o <<"-">> \o Format03d(n)

\* ProfileGenerator.create_profile
CreateProfile(profile_id, title, clues, language, category) ==
    [id |-> profile_id,
     category |-> category,
     name |-> title,
     clues |-> clues,
     metadata |-> [language |-> language, difficulty |-> "medium",
                   source |-> "entertainment"]]

\* variant: the section index is off by one (start_id + idx + 1)
NewProfilesOffByOne(ms, id_prefix, start_id, language, category) ==
    [k \in 1..Len(ms) |->
        CreateProfile(ProfileId(id_prefix, start_id + k),
                      ms[k].title, ms[k].clues, language, category)]

\* variant: the section index is left out of the id (start_id alone)
NewProfilesSameId(ms, id_prefix, start_id, language, category) ==
    [k \in 1..Len(ms) |->
        CreateProfile(ProfileId(id_prefix, start_id),
                      ms[k].title, ms[k].clues, language, category)]

\* the loop of update_language that generates the new profiles
NewProfiles(ms, id_prefix, start_id, language, category) ==
    [k \in 1..Len(ms) |->
        CreateProfile(ProfileId(id_prefix, start_id + (k - 1)),
                      ms[k].title, ms[k].clues, language, category)]

----------------------------------------------------------------------------
(* DataUpdater.update_language *)

\* main: id_prefix = args.id_prefix or args.category.lower()
\* (args.id_prefix is <<>> when the option is not given, else <<its value>>)
IdPrefix(a) ==
    IF a.id_prefix = <<>> \/ a.id_prefix[1] = <<>> THEN Lower(a.category)
    ELSE a.id_prefix[1]

\* outcome of a call: the exception it raises (or None), the count it
\* returns, the sections it parsed and the JSON files it leaves behind
Outcome(raised, count, ms, files) ==
    [raised |-> raised, count |-> count, movies |-> ms, files |-> files]

\* variant: the list is replaced by the new profiles instead of extended
ExtendReplacing(profiles, new_profiles) == new_profiles

\* data['profiles'].extend(new_profiles)
Extend(profiles, new_profiles) == profiles \o new_profiles

\* update_language from "Load existing JSON" on, for a non-empty list ms
MergeAndSave(ms, language, a, files) ==
    LET path == GetJsonFile(a.category, language)
        loaded == LoadJson(files[path])
        new_profiles == NewProfiles(ms, IdPrefix(a), a.start_id, language, a.category)
    IN  IF loaded.raised # None THEN Outcome(loaded.raised, 0, ms, files)
        ELSE IF "profiles" \notin DOMAIN loaded.data THEN Outcome(KeyErr, 0, ms, files)
        ELSE LET doc == [loaded.data EXCEPT !.profiles = Extend(@, new_profiles)]
                 saved == SaveJson(files, path, doc)
                 v == ValidateJson(saved[path])
             IN  IF v.raised # None THEN Outcome(v.raised, 0, ms, saved)
                 ELSE IF ~v.valid THEN Outcome(None, 0, ms, saved)
                 ELSE Outcome(None, Len(new_profiles), ms, saved)

\* variant: the "if not movies: return 0" test is missing
UpdateLanguageNoEmptyCheck(language, a, md, files) ==
    LET markdown_file == GetMarkdownFile(DOMAIN md, a.category, language) IN
    IF markdown_file.raised # None THEN Outcome(markdown_file.raised, 0, <<>>, files)
    ELSE MergeAndSave(ParseMdFile(md[markdown_file.path]).movies, language, a, files)

UpdateLanguage(language, a, md, files) ==
    LET markdown_file == GetMarkdownFile(DOMAIN md, a.category, language) IN
    IF markdown_file.raised # None THEN Outcome(markdown_file.raised, 0, <<>>, files)
    ELSE LET ms == ParseMdFile(md[markdown_file.path]).movies IN
         IF ms = <<>> THEN Outcome(None, 0, ms, files)
         ELSE MergeAndSave(ms, language, a, files)

----------------------------------------------------------------------------
(* DataUpdater.update_all_languages and main *)

\* results[language] = count
SetItem(d, k, v) == [x \in (DOMAIN d) \cup {k} |-> IF x = k THEN v ELSE d[x]]

\* variant: the except branch only logs
OnExceptionOnlyLogs(res, language) == res

\* the except branch of update_all_languages
OnException(res, language) == SetItem(res, language, 0)

\* the summary loop of main: total_added += count over results.items()
RECURSIVE SumCounts(_)
SumCounts(d) ==
    IF DOMAIN d = {} THEN 0
    ELSE LET k == CHOOSE x \in DOMAIN d : TRUE
         IN  d[k] + SumCounts([x \in (DOMAIN d) \ {k} |-> d[x]])

\* variant: the test is >= instead of >
ExitCodeAtLeastZero(total) == IF total >= 0 THEN 0 ELSE 1

\* return 0 if total_added > 0 else 1
ExitCode(total) == IF total > 0 THEN 0 ELSE 1

\* variant: len(data) instead of len(data['profiles'])
NewCountOfKeys(data) == Cardinality(DOMAIN data)

\* new_count = len(data['profiles'])
NewCount(data) == Len(data.profiles)

\* the loop over args.languages inside one matching manifest category
RECURSIVE UpdateLocales(_, _, _, _)
UpdateLocales(category, langs, a, files) ==
    IF langs = <<>> THEN [raised |-> None, category |-> category]
    ELSE LET language == Head(langs)
             loaded == LoadJson(files[GetJsonFile(a.category, language)])
         IN  IF loaded.raised # None THEN [raised |-> loaded.raised, category |-> category]
             ELSE IF "profiles" \notin DOMAIN loaded.data
                    THEN [raised |-> KeyErr, category |-> category]
             ELSE IF "locales" \notin DOMAIN category
                    THEN [raised |-> KeyErr, category |-> category]
             ELSE LET new_count == NewCount(loaded.data)
                      updated ==
                        IF language \in DOMAIN category.locales
                          THEN [category EXCEPT
                                  !.locales[language].profileAmount = new_count]
                          ELSE category
                  IN  UpdateLocales(updated, Tail(langs), a, files)

\* the loop over manifest.get('categories', [])
RECURSIVE UpdateCategories(_, _, _)
UpdateCategories(categories, a, files) ==
    IF categories = <<>> THEN [raised |-> None, categories |-> <<>>]
    ELSE LET category == Head(categories)
             h == IF "slug" \in DOMAIN category /\ category.slug = Lower(a.category)
                    THEN UpdateLocales(category, a.languages, a, files)
                    ELSE [raised |-> None, category |-> category]
         IN  IF h.raised # None THEN [raised |-> h.raised, categories |-> categories]
             ELSE LET t == UpdateCategories(Tail(categories), a, files) IN
                  IF t.raised # None THEN [raised |-> t.raised, categories |-> categories]
                  ELSE [raised |-> None, categories |-> <<h.category>> \o t.categories]

\* the manifest block of main: what it logs and the manifest file it leaves
UpdateManifest(file, a, files) ==
    IF ~a.manifest \/ file.kind = "absent" THEN [log |-> "skipped", file |-> file]
    ELSE LET loaded == LoadJson(file) IN
         IF loaded.raised # None THEN [log |-> "failed", file |-> file]
         ELSE IF "categories" \notin DOMAIN loaded.data
                THEN [log |-> "updated", file |-> JsonFile(loaded.data)]
         ELSE LET u == UpdateCategories(loaded.data.categories, a, files) IN
              IF u.raised # None THEN [log |-> "failed", file |-> file]
              ELSE [log |-> "updated",
                    file |-> JsonFile([loaded.data EXCEPT !.categories = u.categories])]

----------------------------------------------------------------------------
(* Inputs of a run *)

Languages == {En, Es}

LanguageLists == { ls \in SeqsUpTo(Languages, MaxLangs) : ls # <<>> }

Movie == <<"m", "o", "v", "i", "e">>

\* --id-prefix and --start-id
IdConfigs ==
    { [id_prefix |-> <<>>, start_id |-> 76],
      [id_prefix |-> <<Movie>>, start_id |-> 1],
      [id_prefix |-> <<Movie>>, start_id |-> 999],
      [id_prefix |-> << <<>> >>, start_id |-> -1] }

DocNone == JoinLines(<< <<"x">>, <<"1", ".", " ", "A">> >>)
DocOne == JoinLines(<< <<"1", ".", " ", "A">>, <<"-", " ", "x">> >>)
DocTwo ==
    JoinLines(<< <<"1", ".", " ", "A">>, <<"-", " ", "a">>, <<"-", " ", "b">>, <<>>,
                 <<"2", ".", " ", "B">>, <<"-", " ", "c">> >>)

NoText == <<>>
Text(t) == <<t>>

\* markdown directories: movies.md, movies_en.md and movies-es_md.md, each
\* missing or holding one of the texts above
MdDirOf(generic, en, es) ==
    LET all == (Candidates(Movies, En)[1] :> generic)
               @@ (Candidates(Movies, En)[3] :> en)
               @@ (Candidates(Movies, Es)[6] :> es)
    IN  [n \in {x \in DOMAIN all : all[x] # NoText} |-> all[n][1]]

MdDirs ==
    { MdDirOf(g, e, s) : g \in {NoText, Text(DocOne)},
                         e \in {NoText, Text(DocNone), Text(DocTwo)},
                         s \in {NoText, Text(DocOne)} }

\* a profile already in a dataset (its id is one a run can generate again)
Existing(language) ==
    CreateProfile(ProfileId(Movie, 1), <<"O", "l", "d">>, <<<<"o">>>>, language, Movies)

DatasetStates(language) ==
    { AbsentFile, MalformedFile,
      JsonFile([version |-> 1]),
      JsonFile([version |-> 1, profiles |-> <<>>]),
      JsonFile([version |-> 1, profiles |-> <<Existing(language)>>]) }

JsonDirs ==
    { (GetJsonFile(Movies, En) :> e) @@ (GetJsonFile(Movies, Es) :> s) :
        e \in DatasetStates(En),
        s \in DatasetStates(Es) \ {JsonFile([version |-> 1, profiles |-> <<>>])} }

Amount(n) == [profileAmount |-> n]
Music == <<"m", "u", "s", "i", "c">>

ManifestFiles ==
    { AbsentFile, MalformedFile,
      JsonFile([version |-> 1]),
      JsonFile([categories |-> <<[slug |-> Lower(Movies)]>>]),
      JsonFile([categories |-> <<[slug |-> Lower(Movies),
                                  locales |-> (En :> Amount(75))]>>]),
      JsonFile([version |-> 1,
                categories |-> <<[slug |-> Music,
                                  locales |-> (En :> Amount(3))],
                                 [slug |-> Lower(Movies),
                                  locales |-> (En :> Amount(75)) @@ (Es :> Amount(75))]>>]) }

\* --manifest not given, or given with one of the files above
ManifestInputs ==
    { [given |-> FALSE, file |-> AbsentFile] }
    \cup { [given |-> TRUE, file |-> f] : f \in ManifestFiles }

----------------------------------------------------------------------------
(* The run of main *)

NoParse == /\ content = <<>>
           /\ parsed = "off"
           /\ movies = <<>>
           /\ warnings = <<>>

NoProbe == /\ probe_lang = <<>>
           /\ probe_dir = {}
           /\ probe_out = [raised |-> "off"]

NoMain == /\ pc = "off"
          /\ args = <<>>
          /\ md_dir = <<>>
          /\ json_files = <<>>
          /\ manifest_file = AbsentFile
          /\ results = <<>>
          /\ lang_idx = 0
          /\ calls = <<>>
          /\ total_added = 0
          /\ manifest_log = "none"
          /\ exit_code = -1
          /\ json_before = <<>>
          /\ manifest_before = AbsentFile

Init ==
    /\ \E ls \in LanguageLists, c \in IdConfigs, m \in ManifestInputs :
        /\ args = [category |-> Movies, id_prefix |-> c.id_prefix,
                   start_id |-> c.start_id, languages |-> ls, manifest |-> m.given]
        /\ manifest_file = m.file
        /\ manifest_before = m.file
    /\ md_dir \in MdDirs
    /\ json_files \in JsonDirs
    /\ json_before = json_files
    /\ pc = "update"
    /\ results = <<>>
    /\ lang_idx = 1
    /\ calls = <<>>
    /\ total_added = 0
    /\ manifest_log = "none"
    /\ exit_code = -1
    /\ NoParse
    /\ NoProbe

\* one iteration of the loop of update_all_languages (try / except included)
UpdateNextLanguage ==
    /\ pc = "update"
    /\ lang_idx <= Len(args.languages)
    /\ LET language == args.languages[lang_idx]
           path == GetJsonFile(args.category, language)
           out == UpdateLanguage(language, args, md_dir, json_files)
       IN  /\ results' = IF out.raised = None
                           THEN SetItem(results, language, out.count)
                           ELSE OnException(results, language)
           /\ json_files' = out.files
           /\ calls' = Append(calls, [language |-> language, raised |-> out.raised,
                                      count |-> out.count, movies |-> out.movies,
                                      before |-> json_files[path],
                                      after |-> out.files[path]])
    /\ lang_idx' = lang_idx + 1
    /\ UNCHANGED <<pc, args, md_dir, manifest_file, total_added, manifest_log,
                   exit_code, json_before, manifest_before>>
    /\ UNCHANGED <<parseVars, probeVars>>

\* update_all_languages returns; main adds up the counts
Summarize ==
    /\ pc = "update"
    /\ lang_idx > Len(args.languages)
    /\ total_added' = SumCounts(results)
    /\ pc' = "manifest"
    /\ UNCHANGED <<args, md_dir, json_files, manifest_file, results, lang_idx,
                   calls, manifest_log, exit_code, json_before, manifest_before>>
    /\ UNCHANGED <<parseVars, probeVars>>

\* the manifest block of main
ManifestStep ==
    /\ pc = "manifest"
    /\ LET u == UpdateManifest(manifest_file, args, json_files) IN
        /\ manifest_file' = u.file
        /\ manifest_log' = u.log
    /\ pc' = "exit"
    /\ UNCHANGED <<args, md_dir, json_files, results, lang_idx, calls, total_added,
                   exit_code, json_before, manifest_before>>
    /\ UNCHANGED <<parseVars, probeVars>>

\* main returns
Return ==
    /\ pc = "exit"
    /\ exit_code' = ExitCode(total_added)
    /\ pc' = "done"
    /\ UNCHANGED <<args, md_dir, json_files, manifest_file, results, lang_idx,
                   calls, total_added, manifest_log, json_before, manifest_before>>
    /\ UNCHANGED <<parseVars, probeVars>>

Next == UpdateNextLanguage \/ Summarize \/ ManifestStep \/ Return

Spec == Init /\ [][Next]_vars

----------------------------------------------------------------------------
(* parse_md_file on its own *)

InitParse ==
    /\ content \in Contents
    /\ parsed = "todo"
    /\ movies = <<>>
    /\ warnings = <<>>
    /\ NoMain
    /\ NoProbe

Parse ==
    /\ parsed = "todo"
    /\ LET r == ParseMdFile(content) IN
        /\ movies' = r.movies
        /\ warnings' = r.warnings
    /\ parsed' = "done"
    /\ UNCHANGED <<content, mainVars, probeVars>>

NextParse == Parse

SpecParse == InitParse /\ [][NextParse]_vars

----------------------------------------------------------------------------
(* get_markdown_file on its own *)

ProbeLanguages == {En, Es, Md}

ProbeNames ==
    UNION { { Candidates(Movies, l)[k] : k \in 1..6 } : l \in ProbeLanguages }

InitProbe ==
    /\ probe_lang \in ProbeLanguages
    /\ probe_dir \in SUBSET ProbeNames
    /\ probe_out = [raised |-> "pending"]
    /\ NoMain
    /\ NoParse

Probe ==
    /\ probe_out.raised = "pending"
    /\ probe_out' = GetMarkdownFile(probe_dir, Movies, probe_lang)
    /\ UNCHANGED <<probe_lang, probe_dir, mainVars, parseVars>>

NextProbe == Probe

SpecProbe == InitProbe /\ [][NextProbe]_vars

----------------------------------------------------------------------------
(* Properties of a run (specification Spec) *)

HasProfiles(file) == file.kind = "json" /\ "profiles" \in DOMAIN file.data
Profiles(file) == file.data.profiles

IsPrefix(a, b) == Len(a) <= Len(b) /\ SubSeq(b, 1, Len(a)) = a

\* the profiles a call appended to its dataset file
Appended(c) ==
    IF HasProfiles(c.before) /\ HasProfiles(c.after)
      THEN SubSeq(Profiles(c.after), Len(Profiles(c.before)) + 1, Len(Profiles(c.after)))
      ELSE <<>>

\* reading of a number field of an id
DigitValue(ch) == CHOOSE d \in 0..9 : DigitChars[d + 1] = ch

AllDigits(f) == \A i \in 1..Len(f) : IsDigit(f[i])

RECURSIVE DecodeNat(_)
DecodeNat(f) ==
    IF f = <<>> THEN 0
    ELSE 10 * DecodeNat(SubSeq(f, 1, Len(f) - 1)) + DigitValue(f[Len(f)])

\* f is the decimal numeral of n filled with zeros to a width of 3 and no
\* further (a minus sign comes first and counts in the width)
IsPadded3(f, n) ==
    LET ds == IF n < 0 THEN Tail(f) ELSE f IN
    /\ f # <<>>
    /\ (n < 0) <=> (Head(f) = "-")
    /\ ds # <<>>
    /\ AllDigits(ds)
    /\ DecodeNat(ds) = (IF n < 0 THEN -n ELSE n)
    /\ Len(f) >= 3
    /\ Len(f) > 3 => ds[1] # "0"

IsProfileId(id, id_prefix, n) ==
    LET head == ProfileWord \o <<"-">> \o id_prefix \o <<"-">> IN
    /\ StartsWith(id, head)
    /\ IsPadded3(SubSeq(id, Len(head) + 1, Len(id)), n)

\* C1: a successful update_language for a markdown file of n >= 1 sections
\* appends exactly n profiles; the i-th of them carries the id
\* profile-<id_prefix>-<start_id + i, zero-filled to width 3> and the title
\* and clues of the i-th section.
C1_AppendsSectionsInOrder ==
    \A k \in 1..Len(calls) :
        LET c == calls[k]
            n == Len(c.movies)
        IN  (c.raised = None /\ n >= 1) =>
              /\ HasProfiles(c.before)
              /\ HasProfiles(c.after)
              /\ Len(Profiles(c.after)) = Len(Profiles(c.before)) + n
              /\ c.count = n
              /\ \A i \in 0..(n - 1) :
                    LET p == Profiles(c.after)[Len(Profiles(c.before)) + i + 1] IN
                    /\ IsProfileId(p.id, IdPrefix(args), args.start_id + i)
                    /\ p.name = c.movies[i + 1].title
                    /\ p.clues = c.movies[i + 1].clues

C1_Witness ==
    \E k \in 1..Len(calls) :
        /\ calls[k].raised = None
        /\ Len(calls[k].movies) = 2
        /\ Len(Profiles(calls[k].before)) = 1
        /\ args.start_id = 999

\* C2: the profiles a dataset held when the run started stay, unmodified and
\* in order, a prefix of its profiles list, and every call leaves the list it
\* found as a prefix of the list it leaves, followed by what it generated.
C2_OrderPreservingAppend ==
    /\ \A path \in DOMAIN json_before :
          HasProfiles(json_before[path]) =>
             /\ HasProfiles(json_files[path])
             /\ IsPrefix(Profiles(json_before[path]), Profiles(json_files[path]))
    /\ \A k \in 1..Len(calls) :
          LET c == calls[k] IN
          HasProfiles(c.before) =>
             /\ HasProfiles(c.after)
             /\ IsPrefix(Profiles(c.before), Profiles(c.after))
             /\ Len(Appended(c)) \in {0, Len(c.movies)}
             /\ \A i \in 1..Len(Appended(c)) : Appended(c)[i].name = c.movies[i].title

C2_Witness ==
    /\ pc = "done"
    /\ \E path \in DOMAIN json_before :
          /\ HasProfiles(json_before[path])
          /\ Len(Profiles(json_before[path])) = 1
          /\ Len(Profiles(json_files[path])) > 2
          /\ Profiles(json_files[path])[2].id = Profiles(json_files[path])[1].id

\* C3: a language whose update_language call raises is recorded with count
\* 0, the languages after it are still processed, and the mapping returned
\* has an entry for every requested language.
C3_FailuresIsolated ==
    /\ \A k \in 1..Len(calls) :
          /\ calls[k].language = args.languages[k]
          /\ calls[k].raised # None =>
                /\ calls[k].language \in DOMAIN results
                /\ results[calls[k].language] = 0
    /\ pc \in {"manifest", "exit", "done"} =>
          /\ Len(calls) = Len(args.languages)
          /\ DOMAIN results = { args.languages[k] : k \in 1..Len(args.languages) }

C3_Witness ==
    /\ pc = "done"
    /\ \E k \in 1..(Len(calls) - 1) :
          /\ calls[k].raised # None
          /\ calls[k + 1].raised = None
          /\ calls[k + 1].count > 0
          /\ results[calls[k + 1].language] > 0

\* the manifest the run started with has a category of the lowercased name
IsMatching(category) == "slug" \in DOMAIN category /\ category.slug = Lower(args.category)

ManifestHasCategory ==
    /\ args.manifest
    /\ manifest_before.kind = "json"
    /\ "categories" \in DOMAIN manifest_before.data
    /\ \E k \in 1..Len(manifest_before.data.categories) :
          IsMatching(manifest_before.data.categories[k])

Requested == { args.languages[k] : k \in 1..Len(args.languages) }

DatasetOf(language) == json_files[GetJsonFile(args.category, language)]

\* the manifest file holds, for category k and the language, the number of
\* profiles now in the language's dataset
AmountIsTotal(k, language) ==
    /\ manifest_file.kind = "json"
    /\ "categories" \in DOMAIN manifest_file.data
    /\ k <= Len(manifest_file.data.categories)
    /\ "locales" \in DOMAIN manifest_file.data.categories[k]
    /\ language \in DOMAIN manifest_file.data.categories[k].locales
    /\ manifest_file.data.categories[k].locales[language].profileAmount
          = Len(Profiles(DatasetOf(language)))

\* C4 as stated: after the run, every requested language that is under the
\* locales of the matching category and whose dataset can be loaded has its
\* profileAmount equal to the dataset's total, whatever the state of the
\* other requested languages' datasets.
C4_AmountPerLanguageIndependently ==
    (pc = "done" /\ ManifestHasCategory) =>
        \A k \in 1..Len(manifest_before.data.categories) :
            LET category == manifest_before.data.categories[k] IN
            (IsMatching(category) /\ "locales" \in DOMAIN category) =>
                \A language \in Requested :
                    (language \in DOMAIN category.locales
                        /\ HasProfiles(DatasetOf(language)))
                    => AmountIsTotal(k, language)

AllDatasetsLoad == \A language \in Requested : HasProfiles(DatasetOf(language))

AllMatchingHaveLocales ==
    \A k \in 1..Len(manifest_before.data.categories) :
        IsMatching(manifest_before.data.categories[k])
            => "locales" \in DOMAIN manifest_before.data.categories[k]

\* C4 amended: the amounts are the totals when the dataset of every
\* requested language can be loaded with a profiles list (and the matching
\* categories have locales); otherwise the manifest file is left as it was.
C4_AmountWhenAllDatasetsLoad ==
    (pc = "done" /\ ManifestHasCategory) =>
        IF AllDatasetsLoad /\ AllMatchingHaveLocales
          THEN /\ manifest_log = "updated"
               /\ \A k \in 1..Len(manifest_before.data.categories) :
                     LET category == manifest_before.data.categories[k] IN
                     IsMatching(category) =>
                        \A language \in Requested :
                            language \in DOMAIN category.locales
                                => AmountIsTotal(k, language)
          ELSE /\ manifest_log = "failed"
               /\ manifest_file = manifest_before

C4_Witness ==
    /\ pc = "done"
    /\ ManifestHasCategory
    /\ manifest_log = "updated"
    /\ Len(args.languages) = 2
    /\ \E k \in 1..Len(manifest_file.data.categories) :
          /\ IsMatching(manifest_file.data.categories[k])
          /\ manifest_file.data.categories[k].locales[En].profileAmount = 3
          /\ manifest_before.data.categories[k].locales[En].profileAmount = 75

\* C5: main returns 0 exactly when the counts of the mapping returned by
\* update_all_languages add up to more than 0, and 1 otherwise, whatever the
\* manifest step did.
C5_ExitCode ==
    pc = "done" =>
        /\ exit_code \in {0, 1}
        /\ exit_code = 0 <=> SumCounts(results) > 0
        /\ manifest_log \in {"skipped", "updated", "failed"}

C5_Witness ==
    /\ pc = "done"
    /\ manifest_log = "failed"
    /\ exit_code = 0

\* the markdown file of the language exists and parses to zero sections
ParsesToNothing(language) ==
    LET f == GetMarkdownFile(DOMAIN md_dir, args.category, language) IN
    /\ f.raised = None
    /\ ParseMdFile(md_dir[f.path]).movies = <<>>

\* C6: when the markdown file parses to zero sections update_language
\* returns 0 without raising and leaves the dataset file as it found it,
\* whether that file is missing, malformed or a dataset.
C6_EmptyMarkdownLeavesDataset ==
    \A k \in 1..Len(calls) :
        ParsesToNothing(calls[k].language) =>
            /\ calls[k].raised = None
            /\ calls[k].count = 0
            /\ calls[k].after = calls[k].before
            /\ json_files[GetJsonFile(args.category, calls[k].language)]
                  = json_before[GetJsonFile(args.category, calls[k].language)]

C6_Witness ==
    \E k \in 1..Len(calls) :
        /\ ParsesToNothing(calls[k].language)
        /\ calls[k].before.kind \in {"absent", "malformed"}
        /\ calls[k].raised = None

\* all the profiles generated during the run, call after call
RECURSIVE Generated(_)
Generated(cs) == IF cs = <<>> THEN <<>> ELSE Appended(Head(cs)) \o Generated(Tail(cs))

Distinct(ps) == \A i, j \in 1..Len(ps) : i # j => ps[i].id # ps[j].id

\* C8 as stated: no two profiles generated during one run of
\* update_all_languages carry the same id.
C8_IdsUniqueInRun == Distinct(Generated(calls))

\* C8 amended: no two profiles generated by one update_language call carry
\* the same id.
C8_IdsUniqueInCall == \A k \in 1..Len(calls) : Distinct(Appended(calls[k]))

C8_Witness ==
    \E k \in 1..Len(calls) :
        /\ Len(Appended(calls[k])) = 2
        /\ args.start_id = -1

\* growth of the dataset file of a language during the run
Growth(language) ==
    LET path == GetJsonFile(args.category, language) IN
    IF HasProfiles(json_before[path]) /\ HasProfiles(json_files[path])
      THEN Len(Profiles(json_files[path])) - Len(Profiles(json_before[path]))
      ELSE 0

RECURSIVE SumGrowth(_)
SumGrowth(ls) ==
    IF ls = {} THEN 0
    ELSE LET l == CHOOSE x \in ls : TRUE IN Growth(l) + SumGrowth(ls \ {l})

\* C9: the count recorded for a language is the number of profiles appended
\* to its dataset file during the run, a count of 0 means the file was not
\* changed, and the total reported is the total growth of the datasets.
C9_CountIsGrowth ==
    pc = "done" =>
        /\ \A language \in DOMAIN results :
              /\ results[language] = Growth(language)
              /\ results[language] = 0 =>
                    json_files[GetJsonFile(args.category, language)]
                        = json_before[GetJsonFile(args.category, language)]
        /\ total_added = SumGrowth(Requested)

----------------------------------------------------------------------------
(* Properties of parse_md_file (specification SpecParse) *)

\* the clues of the lines of a chunk: every line that starts with "- ",
\* without that prefix and trimmed
RECURSIVE ClueLines(_)
ClueLines(lines) ==
    IF lines = <<>> THEN <<>>
    ELSE (IF StartsWith(Head(lines), <<"-", " ">>)
            THEN <<Strip(SubSeq(Head(lines), 3, Len(Head(lines))))>>
            ELSE <<>>) \o ClueLines(Tail(lines))

\* the sections the chunks stand for: one for every chunk with a numbered
\* title on its first line and at least one "- " line after it
RECURSIVE SectionsOf(_)
SectionsOf(chunks) ==
    IF chunks = <<>> THEN <<>>
    ELSE LET lines == SplitLines(LStrip(Head(chunks)))
             m == TitleMatch(lines[1])
             clues == ClueLines(Tail(lines))
         IN  (IF m.ok /\ clues # <<>>
                THEN <<[title |-> Strip(m.group), clues |-> clues]>>
                ELSE <<>>) \o SectionsOf(Tail(chunks))

\* C7: parse_md_file emits, in file order, exactly one section for every
\* chunk with a parseable numbered title on its first line and at least one
\* line starting with "- " after it, with all its clues in order.
C7_EmitsEveryChunkWithClues ==
    parsed = "done" => movies = SectionsOf(ReSplit(content))

----------------------------------------------------------------------------
(* Properties of get_markdown_file (specification SpecProbe) *)

MoviesLower == <<"m", "o", "v", "i", "e", "s">>
DotMd == <<".", "m", "d">>
UnderMd == <<"_", "m", "d">>

\* out is the outcome of returning the first name of the list order that
\* is in the set names, raising FileNotFoundError when there is none
IsFirstOf(out, order, names) ==
    IF \E k \in 1..Len(order) : order[k] \in names
      THEN /\ out.raised = None
           /\ \E k \in 1..Len(order) :
                 /\ out.path = order[k]
                 /\ order[k] \in names
                 /\ \A j \in 1..(k - 1) : order[j] \notin names
      ELSE out.raised = NotFound

\* C10 as stated: the names are tried in the order {category}.md,
\* {category}_{language}.md, {category}-{language}.md, then the _md
\* variants; the first that exists is returned and FileNotFoundError is
\* raised exactly when none exists.
C10_PlainNamesFirst ==
    probe_out.raised # "pending" =>
        IsFirstOf(probe_out,
                  << MoviesLower \o DotMd,
                     MoviesLower \o <<"_">> \o probe_lang \o DotMd,
                     MoviesLower \o <<"-">> \o probe_lang \o DotMd,
                     MoviesLower \o UnderMd \o DotMd,
                     MoviesLower \o <<"_">> \o probe_lang \o UnderMd \o DotMd,
                     MoviesLower \o <<"-">> \o probe_lang \o UnderMd \o DotMd >>,
                  probe_dir)

\* C10 amended: each name is followed by its _md variant: {category}.md,
\* {category}_md.md, {category}_{language}.md, {category}_{language}_md.md,
\* {category}-{language}.md, {category}-{language}_md.md (category in lower
\* case); the first that exists is returned and FileNotFoundError is raised
\* exactly when none exists.
C10_EachNameThenItsMdVariant ==
    probe_out.raised # "pending" =>
        IsFirstOf(probe_out,
                  << MoviesLower \o DotMd,
                     MoviesLower \o UnderMd \o DotMd,
                     MoviesLower \o <<"_">> \o probe_lang \o DotMd,
                     MoviesLower \o <<"_">> \o probe_lang \o UnderMd \o DotMd,
                     MoviesLower \o <<"-">> \o probe_lang \o DotMd,
                     MoviesLower \o <<"-">> \o probe_lang \o UnderMd \o DotMd >>,
                  probe_dir)

C10_Witness ==
    /\ probe_out.raised = None
    /\ probe_lang = En
    /\ probe_out.path = MoviesLower \o UnderMd \o DotMd
    /\ (MoviesLower \o <<"_">> \o En \o DotMd) \in probe_dir
    /\ (MoviesLower \o DotMd) \notin probe_dir

----------------------------------------------------------------------------
====
